---------------------------- MODULE Spec2Model ----------------------------
(***************************************************************************)
(* zobristhash-set: a Zobrist-style XOR accumulator (ZobristHashSet,       *)
(* src/src/lib.rs) and the fixed-capacity membership checker that shadows  *)
(* it when the crate is built with debug_assertions and the                *)
(* check_set_behavior feature (CopiableHash, src/src/copiable_hash.rs).    *)
(*                                                                         *)
(* A u64 is a sequence of 8 bytes, least significant first (TLC's integers *)
(* are 32 bits wide).  A key of type E is the sequence of machine words    *)
(* its Hash implementation writes to the hasher: <<a, b>> for a tuple      *)
(* (a, b) of integers.  The hasher is rustc_hash::FxHasher (2.1) on a      *)
(* 64-bit target.                                                          *)
(***************************************************************************)
EXTENDS Integers, Sequences, FiniteSets

(***************************************************************************)
(* Bounds of the model.                                                    *)
(***************************************************************************)
\* Capacity of the checker.  The crate sets 1024 * 8 (copiable_hash.rs:5);
\* the model scales it down so that the capacity assertion is reachable.
DEBUG_MAP_HASH_SIZE == 3

\* Calls (add/remove) the accumulator harness makes in one run.
MaxCalls == 4

\* Calls (add/remove) of a run in which an accumulator is made by From<u64>.
MaxFromCalls == 3

\* Longest call sequence whose every reordering is replayed.
MaxPermLen == 3

\* Calls (insert/remove) the checker harness makes in one run.
MaxOps == 5

\* Calls the copy harness makes in one run, before and after the copy.
MaxCopyCalls == 3

(***************************************************************************)
(* 64-bit unsigned arithmetic on little-endian byte sequences.             *)
(***************************************************************************)
Bytes == 1..8

\* The u64 with value n, for 0 <= n < 2^31.
U64(n) ==
    << n % 256, (n \div 256) % 256, (n \div 65536) % 256,
       (n \div 16777216) % 256, 0, 0, 0, 0 >>

Zero == U64(0)

\* x ^ y on 4-bit values.
XorNibble ==
    [x \in 0..15 |-> [y \in 0..15 |->
        ((x + y) % 2)
        + 2 * (((x \div 2) + (y \div 2)) % 2)
        + 4 * (((x \div 4) + (y \div 4)) % 2)
        + 8 * (((x \div 8) + (y \div 8)) % 2)]]

\* x ^ y on bytes.
XorByte(x, y) ==
    16 * XorNibble[x \div 16][y \div 16] + XorNibble[x % 16][y % 16]

\* A plausible slip: | instead of ^.
OrNibble ==
    [x \in 0..15 |-> [y \in 0..15 |->
        (IF (x % 2) + (y % 2) > 0 THEN 1 ELSE 0)
        + 2 * (IF ((x \div 2) % 2) + ((y \div 2) % 2) > 0 THEN 1 ELSE 0)
        + 4 * (IF ((x \div 4) % 2) + ((y \div 4) % 2) > 0 THEN 1 ELSE 0)
        + 8 * (IF ((x \div 8) % 2) + ((y \div 8) % 2) > 0 THEN 1 ELSE 0)]]

Or64(a, b) ==
    [i \in Bytes |->
        16 * OrNibble[a[i] \div 16][b[i] \div 16] + OrNibble[a[i] % 16][b[i] % 16]]

\* a ^ b on u64 (the ^= of add_remove_impl).
Xor(a, b) == [i \in Bytes |-> XorByte(a[i], b[i])]

\* u64::rotate_left(26): three bytes and two bits.
RotateLeft26(a) ==
    [i \in Bytes |->
        (a[((i + 4) % 8) + 1] % 64) * 4 + (a[((i + 3) % 8) + 1] \div 64)]

\* u64::wrapping_add.
WrappingAdd(a, b) ==
    LET Sum[k \in 0..8] ==
            IF k = 0 THEN 0 ELSE a[k] + b[k] + (Sum[k - 1] \div 256)
    IN  [k \in Bytes |-> Sum[k] % 256]

\* Column k (1-based) of the schoolbook product, with the carry of the
\* columns below it.
RECURSIVE MulColumn(_, _, _)
MulColumn(a, b, k) ==
    LET Terms[i \in 0..k] ==
            IF i = 0 THEN 0 ELSE Terms[i - 1] + a[i] * b[k + 1 - i]
    IN  Terms[k] + (IF k = 1 THEN 0 ELSE MulColumn(a, b, k - 1) \div 256)

\* u64::wrapping_mul.
WrappingMul(a, b) == [k \in Bytes |-> MulColumn(a, b, k) % 256]

\* rustc_hash's multiplier on 64-bit targets, K = 0xf1357aea2e62a9c5.
K == << 197, 169, 98, 46, 234, 122, 53, 241 >>

\* FxHasher::add_to_hash: hash = hash.wrapping_add(word).wrapping_mul(K).
AddToHash(hash, word) == WrappingMul(WrappingAdd(hash, word), K)

\* FxHasher::finish: hash.rotate_left(26).
Finish(hash) == RotateLeft26(hash)

\* key.hash(&mut hasher): the hasher's state after the words of the key
\* have been written to it, before finish.
RECURSIVE HashWords(_, _)
HashWords(hash, words) ==
    IF words = << >> THEN hash
    ELSE HashWords(AddToHash(hash, Head(words)), Tail(words))

(***************************************************************************)
(* The keys of the model: values of E = (u64, u64).                        *)
(***************************************************************************)
\* (0, 0) hashes to 0.
KeyZero == << U64(0), U64(0) >>

\* The keys of tests::test_zobrist_hash2 and tests::test_zobrist_hash3.
Key1_42 == << U64(1), U64(42) >>

\* (0, K + 42) = (0, 0xf1357aea2e62a9ef) hashes to 0x634e662fae9bb796, as
\* (1, 42) does: a collision with Key1_42.
KeyCollide == << U64(0), WrappingAdd(K, U64(42)) >>

Key2_42 == << U64(2), U64(42) >>

Key3_42 == << U64(3), U64(42) >>

Keys == { KeyZero, KeyCollide, Key1_42, Key2_42, Key3_42 }

\* The digest of every key of the model, computed once.
HashTable == [k \in Keys |-> Finish(HashWords(Zero, k))]

\* let mut hasher = FxHasher::default(); key.hash(&mut hasher); hasher.finish()
FxHash(key) ==
    IF key \in DOMAIN HashTable THEN HashTable[key]
    ELSE Finish(HashWords(Zero, key))

(***************************************************************************)
(* CopiableHash<E> (copiable_hash.rs): data: [Option<u64>; SIZE], len.     *)
(* Rust's data[i] is data[i + 1] here.                                     *)
(***************************************************************************)
\* Option<T>.
None == << >>

Some(x) == << x >>

IsSome(o) == o # None

Unwrap(o) == o[1]

Slots == 1..DEBUG_MAP_HASH_SIZE

\* CopiableHash::empty()
CopiableHash_empty == [data |-> [i \in Slots |-> None], len |-> 0]

\* .iter().take(self.len).all(|x| x.map_or(true, |x| x != hash))
AllDiffer(self, hash) ==
    \A i \in 1..self.len :
        IF IsSome(self.data[i]) THEN Unwrap(self.data[i]) # hash ELSE TRUE

\* A plausible slip: a full checker refuses the key silently instead of
\* asserting.
insert_silent_full(self, key) ==
    LET hash == FxHash(key) IN
    IF AllDiffer(self, hash) /\ self.len < DEBUG_MAP_HASH_SIZE
    THEN [self |-> [data |-> [self.data EXCEPT ![self.len + 1] = Some(hash)],
                    len |-> self.len + 1],
          ret |-> TRUE, panic |-> "none"]
    ELSE [self |-> self, ret |-> FALSE, panic |-> "none"]

\* A plausible slip: the scan for a duplicate is missing, so a key already
\* present is appended again.
insert_no_scan(self, key) ==
    LET hash == FxHash(key) IN
    IF self.len < DEBUG_MAP_HASH_SIZE
    THEN [self |-> [data |-> [self.data EXCEPT ![self.len + 1] = Some(hash)],
                    len |-> self.len + 1],
          ret |-> TRUE, panic |-> "none"]
    ELSE [self |-> self, ret |-> FALSE, panic |-> "capacity"]

\* A plausible slip: the slot is written before the scan, so a refused
\* insert leaves the digest behind the occupied prefix.
insert_write_then_check(self, key) ==
    LET hash == FxHash(key) IN
    IF AllDiffer(self, hash)
    THEN IF self.len < DEBUG_MAP_HASH_SIZE
         THEN [self |-> [data |-> [self.data EXCEPT ![self.len + 1] = Some(hash)],
                         len |-> self.len + 1],
               ret |-> TRUE, panic |-> "none"]
         ELSE [self |-> self, ret |-> FALSE, panic |-> "capacity"]
    ELSE [self |-> IF self.len < DEBUG_MAP_HASH_SIZE
                   THEN [self EXCEPT !.data[self.len + 1] = Some(hash)]
                   ELSE self,
          ret |-> FALSE, panic |-> "none"]

\* CopiableHash::insert(&mut self, key) -> bool.  panic = "capacity" is the
\* failed assert!(self.len < DEBUG_MAP_HASH_SIZE, ...): nothing was written
\* and no value is returned (ret is then meaningless).
insert(self, key) ==
    LET hash == FxHash(key) IN
    IF AllDiffer(self, hash)
    THEN IF self.len < DEBUG_MAP_HASH_SIZE
         THEN [self |-> [data |-> [self.data EXCEPT ![self.len + 1] = Some(hash)],
                         len |-> self.len + 1],
               ret |-> TRUE, panic |-> "none"]
         ELSE [self |-> self, ret |-> FALSE, panic |-> "capacity"]
    ELSE [self |-> self, ret |-> FALSE, panic |-> "none"]

\* .iter().take(self.len).position(|x| x.map_or(false, |x| x == hash)):
\* the first matching index, 0 for Option::None.
Position(self, hash) ==
    LET Matches == { i \in 1..self.len :
                       IF IsSome(self.data[i]) THEN Unwrap(self.data[i]) = hash
                       ELSE FALSE }
    IN  IF Matches = {} THEN 0
        ELSE CHOOSE i \in Matches : \A j \in Matches : i <= j

\* <[T]>::swap(a, b).
Swap(data, a, b) == [data EXCEPT ![a] = data[b], ![b] = data[a]]

\* A plausible slip: remove reports success without looking for the key.
remove_always_true(self, key) ==
    IF self.len > 0
    THEN [self |-> [self EXCEPT !.len = self.len - 1], ret |-> TRUE]
    ELSE [self |-> self, ret |-> TRUE]

\* A plausible slip: the swap is missing, so the last slot is dropped
\* instead of the one found.
remove_no_swap(self, key) ==
    LET hash == FxHash(key)
        pos == Position(self, hash)
    IN  IF pos # 0
        THEN [self |-> [self EXCEPT !.len = self.len - 1], ret |-> TRUE]
        ELSE [self |-> self, ret |-> FALSE]

\* CopiableHash::remove(&mut self, key: &E) -> bool.
remove(self, key) ==
    LET hash == FxHash(key)
        pos == Position(self, hash)
    IN  IF pos # 0
        THEN [self |-> [data |-> Swap(self.data, pos, self.len),
                        len |-> self.len - 1],
              ret |-> TRUE]
        ELSE [self |-> self, ret |-> FALSE]

(***************************************************************************)
(* ZobristHashSet<E> (lib.rs).  The production build's struct is           *)
(* [hash]; the build with debug_assertions and check_set_behavior adds     *)
(* checker: Option<CopiableHash<E>>.                                       *)
(***************************************************************************)
\* A plausible slip: a non-zero initial fingerprint.
ZobristHashSet_empty_seeded == [hash |-> K]

\* ZobristHashSet::empty(), production build.
ZobristHashSet_empty == [hash |-> Zero]

\* ZobristHashSet::empty(), checked build.
ZobristHashSet_empty_checked ==
    [hash |-> Zero, checker |-> Some(CopiableHash_empty)]

\* #[derive(Default)], production build: hash: 0.
ZobristHashSet_default == [hash |-> Zero]

\* A plausible slip: Default written by hand as Self::empty(), the way
\* CopiableHash's Default is.
ZobristHashSet_default_via_empty ==
    [hash |-> Zero, checker |-> Some(CopiableHash_empty)]

\* #[derive(Default)], checked build: hash: 0, checker: Option::default().
ZobristHashSet_default_checked == [hash |-> Zero, checker |-> None]

\* A plausible slip: From<u64> drops its argument and builds empty().
ZobristHashSet_from_zero(hash) == [hash |-> Zero]

\* From<u64> for ZobristHashSet, production build.
ZobristHashSet_from(hash) == [hash |-> hash]

\* A plausible slip: From<u64> installs a live, empty checker as empty() does.
ZobristHashSet_from_live_checker(hash) ==
    [hash |-> hash, checker |-> Some(CopiableHash_empty)]

\* From<u64> for ZobristHashSet, checked build.
ZobristHashSet_from_checked(hash) == [hash |-> hash, checker |-> None]

\* From<ZobristHashSet<E>> for u64.
u64_from(z) == z.hash

\* A plausible slip: |= instead of ^=.
add_remove_impl_or(zobrist_hash, key) ==
    [zobrist_hash EXCEPT !.hash = Or64(@, FxHash(key))]

\* A plausible slip: the fold is not symmetric in the calls
\* (hash = hash.rotate_left(26) ^ digest).
add_remove_impl_rotating(zobrist_hash, key) ==
    [zobrist_hash EXCEPT !.hash = Xor(RotateLeft26(@), FxHash(key))]

\* fn add_remove_impl(zobrist_hash, key): zobrist_hash.hash ^= hasher.finish()
add_remove_impl(zobrist_hash, key) ==
    [zobrist_hash EXCEPT !.hash = Xor(@, FxHash(key))]

\* ZobristHashSet::add, production build.
ZobristHashSet_add(self, key) == add_remove_impl(self, key)

\* A plausible slip: remove leaves the fingerprint alone.
ZobristHashSet_remove_noop(self, key) == self

\* ZobristHashSet::remove, production build.
ZobristHashSet_remove(self, key) == add_remove_impl(self, key)

\* A plausible slip: the checked build's add validates and forgets the fold.
ZobristHashSet_add_checked_no_fold(self, key) ==
    IF IsSome(self.checker)
    THEN LET r == insert(Unwrap(self.checker), key) IN
         IF r.panic # "none" THEN [self |-> self, panic |-> r.panic]
         ELSE IF ~r.ret THEN [self |-> self, panic |-> "assert"]
         ELSE [self |-> [self EXCEPT !.checker = Some(r.self)], panic |-> "none"]
    ELSE [self |-> self, panic |-> "none"]

\* A plausible slip: the fold comes first and the validation after it
\*   add_remove_impl(self, key);
\*   assert!(self.checker.as_mut().map(|x| x.insert(key.clone())).unwrap_or(true));
ZobristHashSet_add_checked_fold_first(self, key) ==
    LET folded == add_remove_impl(self, key) IN
    IF IsSome(self.checker)
    THEN LET r == insert(Unwrap(self.checker), key)
             checked == [folded EXCEPT !.checker = Some(r.self)]
         IN
         IF r.panic # "none" THEN [self |-> checked, panic |-> r.panic]
         ELSE IF ~r.ret THEN [self |-> checked, panic |-> "assert"]
         ELSE [self |-> checked, panic |-> "none"]
    ELSE [self |-> folded, panic |-> "none"]

\* ZobristHashSet::add, checked build:
\*   assert!(self.checker.as_mut().map(|x| x.insert(key.clone())).unwrap_or(true));
\*   add_remove_impl(self, key);
\* panic is "capacity" (the assertion inside insert), "assert" (this
\* assertion) or "none"; a panic leaves before add_remove_impl, with the
\* checker as insert left it.
ZobristHashSet_add_checked(self, key) ==
    IF IsSome(self.checker)
    THEN LET r == insert(Unwrap(self.checker), key)
             checked == [self EXCEPT !.checker = Some(r.self)]
         IN
         IF r.panic # "none" THEN [self |-> checked, panic |-> r.panic]
         ELSE IF ~r.ret THEN [self |-> checked, panic |-> "assert"]
         ELSE [self |-> add_remove_impl([self EXCEPT !.checker = Some(r.self)], key),
               panic |-> "none"]
    ELSE [self |-> add_remove_impl(self, key), panic |-> "none"]

\* ZobristHashSet::remove, checked build:
\*   assert!(self.checker.as_mut().map(|x| x.remove(key)).unwrap_or(true));
\*   add_remove_impl(self, key);
ZobristHashSet_remove_checked(self, key) ==
    IF IsSome(self.checker)
    THEN LET r == remove(Unwrap(self.checker), key)
             checked == [self EXCEPT !.checker = Some(r.self)]
         IN
         IF ~r.ret THEN [self |-> checked, panic |-> "assert"]
         ELSE [self |-> add_remove_impl([self EXCEPT !.checker = Some(r.self)], key),
               panic |-> "none"]
    ELSE [self |-> add_remove_impl(self, key), panic |-> "none"]

\* #[derive(Clone, Copy)] on CopiableHash: the array, slot by slot, and len.
CopiableHash_clone(self) ==
    [data |-> [i \in Slots |-> self.data[i]], len |-> self.len]

\* #[derive(Clone, Copy)] on ZobristHashSet, production build.
ZobristHashSet_clone(self) == [hash |-> self.hash]

\* #[derive(Clone, Copy)] on ZobristHashSet, checked build: the checker is
\* held by value and is copied with it.
ZobristHashSet_clone_checked(self) ==
    [hash |-> self.hash,
     checker |-> IF IsSome(self.checker)
                 THEN Some(CopiableHash_clone(Unwrap(self.checker)))
                 ELSE None]

(***************************************************************************)
(* The state.  Three harnesses drive the code:                               *)
(*  - the accumulator harness gives the same add/remove calls to a         *)
(*    production-build accumulator and to a checked-build accumulator,     *)
(*    both made by empty(), and to the accumulators made from a raw u64    *)
(*    (From<u64>) or by default(), once these exist.  A call that panics   *)
(*    unwinds out of add/remove; the accumulator it panicked on gets no    *)
(*    further call.                                                        *)
(*  - the checker harness is tests::random_test_with_hashset and           *)
(*    tests::capacity_over_test: the same insert/remove calls on a         *)
(*    CopiableHash and on a reference std HashSet of the keys.             *)
(*  - the copy harness holds a production-build accumulator, a checked     *)
(*    accumulator and a bare checker, copies the three at some point (the  *)
(*    types are Copy), and from then on calls either the originals or the  *)
(*    copies.                                                              *)
(***************************************************************************)
VARIABLES
    prod,           \* ZobristHashSet of the production build, from empty()
    ver,            \* ZobristHashSet of the checked build, from empty()
    ver_panic,      \* "none", or the panic that ended ver's last call
    prodB,          \* Option: production-build accumulator made by From<u64>
    verB,           \* Option: checked-build accumulator made by From<u64>
    verB_panic,     \* "none", or the panic that ended verB's last call
    from_info,      \* how and when prodB/verB were made, and from which u64
    trace,          \* the add/remove calls made so far, each with the state before it
    target,         \* the CopiableHash of the checker harness
    reference,      \* the reference HashSet<E> of the checker harness
    target_ret,     \* Option<bool>: what target's last call returned
    reference_ret,  \* Option<bool>: what reference's last call returned
    target_panic,   \* "none", "capacity" (insert) or "assert_eq" (the test)
    ctrace,         \* the insert/remove calls made so far on target and reference
    instances,      \* "original" (and "copy", once made) |-> the three objects
    copy_info,      \* Option: when the copy was made and what it was made of
    itrace          \* the calls of the copy harness, each with the state before it

accVars == << prod, ver, ver_panic, prodB, verB, verB_panic, from_info, trace >>

chkVars == << target, reference, target_ret, reference_ret, target_panic, ctrace >>

cpVars == << instances, copy_info, itrace >>

vars == << prod, ver, ver_panic, prodB, verB, verB_panic, from_info, trace,
           target, reference, target_ret, reference_ret, target_panic, ctrace,
           instances, copy_info, itrace >>

\* Raw values handed to From<u64> that are no accumulator's value.
AllOnes == [i \in Bytes |-> 255]

RawInputs == { AllOnes }

\* The accumulators as they are now (kept with each call of the trace).
Snapshot ==
    [prod |-> prod, ver |-> ver, ver_panic |-> ver_panic,
     prodB |-> prodB, verB |-> verB, verB_panic |-> verB_panic]

\* The three objects of the copy harness, as constructed.
Objects_empty ==
    [prod |-> ZobristHashSet_empty,
     ver |-> ZobristHashSet_empty_checked, ver_panic |-> "none",
     chk |-> CopiableHash_empty, chk_panic |-> "none"]

Init ==
    /\ prod = ZobristHashSet_empty
    /\ ver = ZobristHashSet_empty_checked
    /\ ver_panic = "none"
    /\ prodB = None
    /\ verB = None
    /\ verB_panic = "none"
    /\ from_info = [origin |-> "none", at |-> 0, prod_raw |-> None, ver_raw |-> None]
    /\ trace = << >>
    /\ target = CopiableHash_empty
    /\ reference = {}
    /\ target_ret = None
    /\ reference_ret = None
    /\ target_panic = "none"
    /\ ctrace = << >>
    /\ instances = [s \in {"original"} |-> Objects_empty]
    /\ copy_info = None
    /\ itrace = << >>

\* One call, add or remove, on every accumulator that is still in use.
Call(op, key) ==
    LET v  == IF op = "add" THEN ZobristHashSet_add_checked(ver, key)
              ELSE ZobristHashSet_remove_checked(ver, key)
        vb == IF op = "add" THEN ZobristHashSet_add_checked(Unwrap(verB), key)
              ELSE ZobristHashSet_remove_checked(Unwrap(verB), key)
    IN
    /\ Len(trace) < (IF from_info.origin = "none" THEN MaxCalls ELSE MaxFromCalls)
    /\ prod' = IF op = "add" THEN ZobristHashSet_add(prod, key)
               ELSE ZobristHashSet_remove(prod, key)
    /\ IF ver_panic = "none"
       THEN ver' = v.self /\ ver_panic' = v.panic
       ELSE UNCHANGED << ver, ver_panic >>
    /\ prodB' = IF IsSome(prodB)
                THEN Some(IF op = "add" THEN ZobristHashSet_add(Unwrap(prodB), key)
                          ELSE ZobristHashSet_remove(Unwrap(prodB), key))
                ELSE None
    /\ IF IsSome(verB) /\ verB_panic = "none"
       THEN verB' = Some(vb.self) /\ verB_panic' = vb.panic
       ELSE UNCHANGED << verB, verB_panic >>
    /\ trace' = Append(trace, [op |-> op, key |-> key, pre |-> Snapshot])
    /\ UNCHANGED from_info
    /\ UNCHANGED chkVars
    /\ UNCHANGED cpVars

Add(key) == Call("add", key)

Remove(key) == Call("remove", key)

\* b = ZobristHashSet::from(u64::from(a)), in each build (the checked build's
\* a must not have panicked).
RoundTrip ==
    /\ from_info.origin = "none"
    /\ Len(trace) <= MaxFromCalls
    /\ prodB' = Some(ZobristHashSet_from(u64_from(prod)))
    /\ verB' = IF ver_panic = "none"
               THEN Some(ZobristHashSet_from_checked(u64_from(ver)))
               ELSE None
    /\ from_info' = [origin |-> "into", at |-> Len(trace),
                     prod_raw |-> Some(u64_from(prod)),
                     ver_raw |-> IF ver_panic = "none" THEN Some(u64_from(ver))
                                 ELSE None]
    /\ UNCHANGED << prod, ver, ver_panic, verB_panic, trace >>
    /\ UNCHANGED chkVars
    /\ UNCHANGED cpVars

\* ZobristHashSet::from(raw), in each build.
FromRaw(raw) ==
    /\ from_info.origin = "none"
    /\ Len(trace) <= MaxFromCalls
    /\ prodB' = Some(ZobristHashSet_from(raw))
    /\ verB' = Some(ZobristHashSet_from_checked(raw))
    /\ from_info' = [origin |-> "raw", at |-> Len(trace),
                     prod_raw |-> Some(raw), ver_raw |-> Some(raw)]
    /\ UNCHANGED << prod, ver, ver_panic, verB_panic, trace >>
    /\ UNCHANGED chkVars
    /\ UNCHANGED cpVars

\* ZobristHashSet::default(), in each build.
MakeDefault ==
    /\ from_info.origin = "none"
    /\ Len(trace) <= MaxFromCalls
    /\ prodB' = Some(ZobristHashSet_default)
    /\ verB' = Some(ZobristHashSet_default_checked)
    /\ from_info' = [origin |-> "default", at |-> Len(trace),
                     prod_raw |-> Some(u64_from(ZobristHashSet_default)),
                     ver_raw |-> Some(u64_from(ZobristHashSet_default_checked))]
    /\ UNCHANGED << prod, ver, ver_panic, verB_panic, trace >>
    /\ UNCHANGED chkVars
    /\ UNCHANGED cpVars

Next ==
    \/ \E key \in Keys : Add(key)
    \/ \E key \in Keys : Remove(key)
    \/ RoundTrip
    \/ \E raw \in RawInputs : FromRaw(raw)
    \/ MakeDefault

Spec == Init /\ [][Next]_vars

\* assert_eq!(reference.insert(key), target.insert(key)): the reference is
\* called first, then the target, whose capacity assertion ends the test;
\* two returns that differ fail assert_eq!, which ends the test as well.
TestInsert(key) ==
    LET r == insert(target, key) IN
    /\ Len(ctrace) < MaxOps
    /\ target_panic = "none"
    /\ reference_ret' = Some(key \notin reference)
    /\ reference' = reference \cup {key}
    /\ target' = r.self
    /\ target_panic' = IF r.panic # "none" THEN r.panic
                       ELSE IF r.ret # (key \notin reference) THEN "assert_eq"
                       ELSE "none"
    /\ target_ret' = IF r.panic = "none" THEN Some(r.ret) ELSE None
    /\ ctrace' = Append(ctrace, [op |-> "insert", key |-> key,
                                 pre |-> [target |-> target, reference |-> reference]])
    /\ UNCHANGED accVars
    /\ UNCHANGED cpVars

\* assert_eq!(reference.remove(&key), target.remove(&key)); two returns that
\* differ end the test.
TestRemove(key) ==
    LET r == remove(target, key) IN
    /\ Len(ctrace) < MaxOps
    /\ target_panic = "none"
    /\ reference_ret' = Some(key \in reference)
    /\ reference' = reference \ {key}
    /\ target' = r.self
    /\ target_ret' = Some(r.ret)
    /\ ctrace' = Append(ctrace, [op |-> "remove", key |-> key,
                                 pre |-> [target |-> target, reference |-> reference]])
    /\ target_panic' = IF r.ret # (key \in reference) THEN "assert_eq" ELSE "none"
    /\ UNCHANGED accVars
    /\ UNCHANGED cpVars

NextChecker ==
    \/ \E key \in Keys : TestInsert(key)
    \/ \E key \in Keys : TestRemove(key)

SpecChecker == Init /\ [][NextChecker]_vars

\* One call on the three objects x of one instance: add/remove on the two
\* accumulators, insert/remove on the bare checker; an object that has
\* panicked gets no further call.
CallAll(x, op, key) ==
    LET v == IF op = "add" THEN ZobristHashSet_add_checked(x.ver, key)
             ELSE ZobristHashSet_remove_checked(x.ver, key)
        c == IF op = "add" THEN insert(x.chk, key)
             ELSE [self |-> remove(x.chk, key).self, panic |-> "none"]
    IN  [prod |-> IF op = "add" THEN ZobristHashSet_add(x.prod, key)
                  ELSE ZobristHashSet_remove(x.prod, key),
         ver |-> IF x.ver_panic = "none" THEN v.self ELSE x.ver,
         ver_panic |-> IF x.ver_panic = "none" THEN v.panic ELSE x.ver_panic,
         chk |-> IF x.chk_panic = "none" THEN c.self ELSE x.chk,
         chk_panic |-> IF x.chk_panic = "none" THEN c.panic ELSE x.chk_panic]

\* The copy of the three objects x.
CloneAll(x) ==
    [prod |-> ZobristHashSet_clone(x.prod),
     ver |-> ZobristHashSet_clone_checked(x.ver), ver_panic |-> x.ver_panic,
     chk |-> CopiableHash_clone(x.chk), chk_panic |-> x.chk_panic]

\* A plausible slip: the checker is reached through a pointer that the copy
\* duplicates, so a call on one instance also moves the other's checker.
CallOn_shared_checker(insts, side, op, key) ==
    LET r == CallAll(insts[side], op, key) IN
    [s \in DOMAIN insts |->
        IF s = side THEN r
        ELSE [insts[s] EXCEPT !.ver.checker = r.ver.checker, !.chk = r.chk]]

\* A call through &mut self on the instance side: that instance's fields are
\* written, nothing else is.
CallOn(insts, side, op, key) ==
    [insts EXCEPT ![side] = CallAll(@, op, key)]

\* One call on the originals or on the copies.
InstanceCall(side, op, key) ==
    /\ Len(itrace) < MaxCopyCalls
    /\ side \in DOMAIN instances
    /\ instances' = CallOn(instances, side, op, key)
    /\ itrace' = Append(itrace, [side |-> side, op |-> op, key |-> key,
                                 pre |-> instances])
    /\ UNCHANGED copy_info
    /\ UNCHANGED accVars
    /\ UNCHANGED chkVars

InstanceAdd(side, key) == InstanceCall(side, "add", key)

InstanceRemove(side, key) == InstanceCall(side, "remove", key)

\* let copy = original;  for each of the three objects.
MakeCopy ==
    /\ copy_info = None
    /\ instances' = [s \in {"original", "copy"} |->
                        IF s = "original" THEN instances["original"]
                        ELSE CloneAll(instances["original"])]
    /\ copy_info' = Some([at |-> Len(itrace), of |-> instances["original"]])
    /\ UNCHANGED itrace
    /\ UNCHANGED accVars
    /\ UNCHANGED chkVars

NextCopy ==
    \/ \E side \in {"original", "copy"} : \E key \in Keys : InstanceAdd(side, key)
    \/ \E side \in {"original", "copy"} : \E key \in Keys : InstanceRemove(side, key)
    \/ MakeCopy

SpecCopy == Init /\ [][NextCopy]_vars

(***************************************************************************)
(* What the claims speak of, computed from the calls made.                 *)
(***************************************************************************)
\* The calls of the trace from the i-th on, as <<op, key>> pairs.
CallsFrom(i) == [j \in 1..(Len(trace) - i + 1) |->
                    << trace[i + j - 1].op, trace[i + j - 1].key >>]

\* How many calls of cs were made with key k.
Toggles(cs, k) == Cardinality({ i \in 1..Len(cs) : cs[i][2] = k })

\* The keys passed to add/remove an odd number of times.
OddKeys(cs) == { k \in Keys : Toggles(cs, k) % 2 = 1 }

\* The XOR of hash(k) over the keys of S.
RECURSIVE XorOver(_)
XorOver(S) ==
    IF S = {} THEN Zero
    ELSE LET k == CHOOSE k \in S : TRUE
         IN  Xor(FxHash(k), XorOver(S \ {k}))

\* C1: in the production build, after any sequence of add/remove calls on
\* an accumulator made by empty(), the value is the XOR of hash(k) over
\* exactly the keys passed to add/remove an odd number of times.
C1_ValueIsXorOfOddKeys ==
    prod.hash = XorOver(OddKeys(CallsFrom(1)))

\* Three calls: one key toggled twice, another once, and a value that shows it.
C1_Witness ==
    /\ Len(trace) = 3
    /\ Toggles(CallsFrom(1), Key1_42) = 2
    /\ Toggles(CallsFrom(1), Key2_42) = 1
    /\ prod.hash = FxHash(Key2_42)
    /\ prod.hash # Zero

\* The last two calls, when they are add(k) then remove(k) or remove(k) then
\* add(k).
LastTwoToggleOneKey ==
    /\ Len(trace) >= 2
    /\ trace[Len(trace) - 1].key = trace[Len(trace)].key
    /\ trace[Len(trace) - 1].op # trace[Len(trace)].op

\* The accumulators as they were before the last two calls.
BeforeLastTwo == trace[Len(trace) - 1].pre

\* C2: self-inverse.  Whatever an accumulator's state (reached by calls or
\* made by From<u64>), add(k) then remove(k), or remove(k) then add(k), both
\* completed, leave its value exactly what it was.
C2_SelfInverse ==
    LastTwoToggleOneKey =>
        /\ prod.hash = BeforeLastTwo.prod.hash
        /\ (ver_panic = "none" => ver.hash = BeforeLastTwo.ver.hash)
        /\ (IsSome(BeforeLastTwo.prodB) =>
                Unwrap(prodB).hash = Unwrap(BeforeLastTwo.prodB).hash)
        /\ (IsSome(BeforeLastTwo.verB) /\ verB_panic = "none" =>
                Unwrap(verB).hash = Unwrap(BeforeLastTwo.verB).hash)

\* add(k), then From<u64> of u64::MAX, then remove(k), add(k): the last two
\* calls leave the accumulators from empty() at hash(k) and the ones made
\* from the raw value at u64::MAX.
C2_Witness ==
    /\ from_info.origin = "raw" /\ from_info.at = 1
    /\ Len(trace) = 3
    /\ trace[1].op = "add" /\ trace[1].key = Key2_42
    /\ trace[2].op = "remove" /\ trace[2].key = Key2_42
    /\ trace[3].op = "add" /\ trace[3].key = Key2_42
    /\ ver_panic = "none" /\ verB_panic = "none"
    /\ BeforeLastTwo.prod.hash # Zero
    /\ Unwrap(BeforeLastTwo.prodB).hash = AllOnes
    /\ Unwrap(prodB).hash = AllOnes

\* Every ordering of the indices of S, as sequences.
RECURSIVE Orderings(_)
Orderings(S) ==
    IF S = {} THEN { << >> }
    ELSE UNION { { << i >> \o p : p \in Orderings(S \ {i}) } : i \in S }

\* The orderings of 1..n for every n up to MaxPermLen, computed once.
OrderingTable == [n \in 0..MaxPermLen |-> Orderings(1..n)]

\* cs in the order p.
Reordered(cs, p) == [i \in 1..Len(cs) |-> cs[p[i]]]

\* The production build's add/remove calls cs, applied in order to z.
RECURSIVE Replay(_, _)
Replay(z, cs) ==
    IF cs = << >> THEN z
    ELSE Replay(IF Head(cs)[1] = "add" THEN ZobristHashSet_add(z, Head(cs)[2])
                ELSE ZobristHashSet_remove(z, Head(cs)[2]),
                Tail(cs))

\* The checked build's add/remove calls cs, applied in order to z, up to the
\* first panic.
RECURSIVE ReplayChecked(_, _)
ReplayChecked(z, cs) ==
    IF cs = << >> THEN [self |-> z, panic |-> "none"]
    ELSE LET r == IF Head(cs)[1] = "add"
                  THEN ZobristHashSet_add_checked(z, Head(cs)[2])
                  ELSE ZobristHashSet_remove_checked(z, Head(cs)[2])
         IN  IF r.panic # "none" THEN r ELSE ReplayChecked(r.self, Tail(cs))

\* C3: order independence.  From any starting value (0 from empty(), a raw
\* u64 from From<u64>), the calls made so far, applied in every order, end in
\* the value they ended in as made; in the checked build, every order that
\* completes without a panic does.  (The accumulators made by empty() are
\* replayed in the runs without From<u64>, which make the same calls.)
C3_OrderIndependence ==
    Len(trace) <= MaxPermLen =>
        IF from_info.origin = "none"
        THEN \A p \in OrderingTable[Len(trace)] :
                LET cs == Reordered(CallsFrom(1), p)
                    v  == ReplayChecked(ZobristHashSet_empty_checked, cs)
                IN  /\ Replay(ZobristHashSet_empty, cs).hash = prod.hash
                    /\ (ver_panic = "none" /\ v.panic = "none" =>
                            v.self.hash = ver.hash)
        ELSE \A p \in OrderingTable[Len(trace) - from_info.at] :
                LET cs == Reordered(CallsFrom(from_info.at + 1), p)
                    vb == ReplayChecked(
                            ZobristHashSet_from_checked(Unwrap(from_info.ver_raw)), cs)
                IN  /\ Replay(ZobristHashSet_from(Unwrap(from_info.prod_raw)), cs).hash
                          = Unwrap(prodB).hash
                    /\ (IsSome(verB) /\ verB_panic = "none" =>
                            vb.panic = "none" /\ vb.self.hash = Unwrap(verB).hash)

\* Three calls with three different digests on an accumulator made from a
\* raw u64 (six orders), of which one is a remove.
C3_Witness ==
    /\ from_info.origin = "raw" /\ from_info.at = 0
    /\ Len(trace) = 3
    /\ trace[1].op = "add" /\ trace[1].key = Key1_42
    /\ trace[2].op = "add" /\ trace[2].key = Key2_42
    /\ trace[3].op = "remove" /\ trace[3].key = Key1_42
    /\ ver_panic = "none"
    /\ Unwrap(prodB).hash = Xor(AllOnes, FxHash(Key2_42))

\* Every key was toggled an even number of times (each add of a key is
\* matched by a remove of it, or the reverse).
Balanced(cs) == \A k \in Keys : Toggles(cs, k) % 2 = 0

\* C4: zero baseline.  empty() has value 0 and, after any balanced sequence
\* of calls on it, the value is 0 again (in the checked build as well, when
\* it accepted the calls).
C4_ZeroBaseline ==
    Balanced(CallsFrom(1)) =>
        /\ prod.hash = Zero
        /\ (ver_panic = "none" => ver.hash = Zero)

\* add(j), add(k), remove(j), remove(k) with non-zero digests, accepted by
\* the checker, and a non-zero value on the way.
C4_Witness ==
    /\ Len(trace) = 4
    /\ trace[1].op = "add" /\ trace[1].key = Key1_42
    /\ trace[2].op = "add" /\ trace[2].key = Key2_42
    /\ trace[3].op = "remove" /\ trace[3].key = Key1_42
    /\ trace[4].op = "remove" /\ trace[4].key = Key2_42
    /\ trace[3].pre.prod.hash # Zero
    /\ ver_panic = "none"
    /\ prod.hash = Zero /\ ver.hash = Zero

(***************************************************************************)
(* Presence of keys, as the caller and as the checker see it.              *)
(***************************************************************************)
\* The calls before the last one.
CallsBeforeLast == SubSeq(CallsFrom(1), 1, Len(trace) - 1)

\* The caller's set after the calls cs: a key is in it when the last call
\* made with it was an add.
PresentKeys(cs) ==
    { k \in Keys :
        \E i \in 1..Len(cs) :
            /\ cs[i] = << "add", k >>
            /\ \A j \in (i + 1)..Len(cs) : cs[j][2] # k }

\* Presence by digest: an odd number of the calls cs were made with a key
\* whose digest is h.
HashPresent(cs, h) ==
    Cardinality({ i \in 1..Len(cs) : FxHash(cs[i][2]) = h }) % 2 = 1

\* No two different keys of S have the same digest.
CollisionFree(S) ==
    \A a \in S : \A b \in S : a # b => FxHash(a) # FxHash(b)

\* The keys the calls cs were made with.
KeysOf(cs) == { cs[i][2] : i \in 1..Len(cs) }

\* The last call was made on a checked accumulator that had accepted every
\* call before it, and was a misuse by the caller's set: add of a present
\* key, or remove of an absent one.
LastCallMisuse ==
    /\ Len(trace) >= 1
    /\ trace[Len(trace)].pre.ver_panic = "none"
    /\ \/ /\ trace[Len(trace)].op = "add"
          /\ trace[Len(trace)].key \in PresentKeys(CallsBeforeLast)
       \/ /\ trace[Len(trace)].op = "remove"
          /\ trace[Len(trace)].key \notin PresentKeys(CallsBeforeLast)

\* The same by digest: add of a key whose digest is present, or remove of a
\* key whose digest is absent.
LastCallMisuseByHash ==
    /\ Len(trace) >= 1
    /\ trace[Len(trace)].pre.ver_panic = "none"
    /\ (trace[Len(trace)].op = "add")
          <=> HashPresent(CallsBeforeLast, FxHash(trace[Len(trace)].key))

\* C5 as claimed: in the checked build, add(k) aborts whenever k is present
\* and remove(k) aborts whenever k is not present.
C5_AsClaimed == LastCallMisuse => ver_panic # "none"

\* C5, amended: presence is presence of the key's digest.  add(k) fails the
\* assertion whenever k or a key with k's digest is present, remove(k)
\* whenever no key with k's digest is; when the keys used have pairwise
\* different digests this is the claim as made.
C5_MisuseDetected ==
    /\ LastCallMisuseByHash => ver_panic = "assert"
    /\ (CollisionFree(KeysOf(CallsFrom(1))) /\ LastCallMisuse) => ver_panic = "assert"

\* add(j), add(k), add(j): the third call fails the assertion and leaves
\* the accumulator as it was.
C5_Witness ==
    /\ Len(trace) = 3
    /\ trace[1].op = "add" /\ trace[1].key = Key1_42
    /\ trace[2].op = "add" /\ trace[2].key = Key2_42
    /\ trace[3].op = "add" /\ trace[3].key = Key1_42
    /\ trace[3].pre.ver_panic = "none"
    /\ LastCallMisuse
    /\ ver_panic = "assert"

(***************************************************************************)
(* From<u64> and the two builds.                                           *)
(***************************************************************************)
\* C8 as claimed: b = from(into(a)) has a's value, and under the same further
\* calls the values agree and b aborts exactly when a does.
C8_AsClaimed ==
    from_info.origin = "into" =>
        /\ Unwrap(prodB).hash = prod.hash
        /\ IsSome(verB) =>
              /\ (ver_panic = "none" /\ verB_panic = "none" =>
                      Unwrap(verB).hash = ver.hash)
              /\ (ver_panic # "none" <=> verB_panic # "none")

\* C8, amended: b = from(into(a)) has a's value; in the production build the
\* values agree after every further call; in the checked build b never
\* aborts (its checker is absent) and its value agrees with a's after every
\* call a has not aborted on.
C8_RoundTrip ==
    from_info.origin = "into" =>
        /\ Unwrap(prodB).hash = prod.hash
        /\ IsSome(verB) =>
              /\ verB_panic = "none"
              /\ (ver_panic = "none" => Unwrap(verB).hash = ver.hash)

\* add(k); b = from(into(a)); add(k): a fails the assertion, b does not.
C8_Witness ==
    /\ from_info.origin = "into" /\ from_info.at = 1
    /\ from_info.ver_raw = Some(FxHash(Key1_42))
    /\ Len(trace) = 2
    /\ trace[1].op = "add" /\ trace[1].key = Key1_42
    /\ trace[2].op = "add" /\ trace[2].key = Key1_42
    /\ ver_panic = "assert" /\ ver.hash = FxHash(Key1_42)
    /\ verB_panic = "none" /\ Unwrap(verB).hash = Zero
    /\ Unwrap(prodB).hash = prod.hash

\* raw ^ hash(k1) ^ ... ^ hash(kn) for the keys of the calls cs.
RECURSIVE FoldDigests(_, _)
FoldDigests(raw, cs) ==
    IF cs = << >> THEN raw
    ELSE FoldDigests(Xor(raw, FxHash(Head(cs)[2])), Tail(cs))

\* C9: from(raw) has value exactly raw and, in the checked build, no
\* checker: no add/remove call on it aborts, and each XORs hash(key) into
\* the value.
C9_FromRawUnchecked ==
    IsSome(verB) =>
        /\ verB_panic = "none"
        /\ Unwrap(verB).checker = None
        /\ Unwrap(verB).hash =
              FoldDigests(Unwrap(from_info.ver_raw), CallsFrom(from_info.at + 1))
        /\ (Len(trace) = from_info.at => Unwrap(verB).hash = Unwrap(from_info.ver_raw))

\* from(u64::MAX), then add(j), add(j), remove(k) with k never added.
C9_Witness ==
    /\ from_info.origin = "raw" /\ from_info.at = 0
    /\ from_info.ver_raw = Some(AllOnes)
    /\ Len(trace) = 3
    /\ trace[1].op = "add" /\ trace[1].key = Key1_42
    /\ trace[2].op = "add" /\ trace[2].key = Key1_42
    /\ trace[3].op = "remove" /\ trace[3].key = Key2_42
    /\ ver_panic = "assert"
    /\ verB_panic = "none"
    /\ Unwrap(verB).hash = Xor(AllOnes, FxHash(Key2_42))

\* C10: mode equivalence.  As long as the checked build has not rejected a
\* call, its accumulator and the production build's have equal values after
\* every call.
C10_ModeEquivalence ==
    ver_panic = "none" => ver.hash = prod.hash

\* Four accepted calls, a remove among them, and a non-zero value.
C10_Witness ==
    /\ Len(trace) = 4
    /\ ver_panic = "none"
    /\ \E i \in 1..4 : trace[i].op = "remove"
    /\ Unwrap(ver.checker).len = 2
    /\ ver.hash # Zero
    /\ ver.hash = Xor(FxHash(Key1_42), FxHash(Key3_42))

(***************************************************************************)
(* The checker against the reference set (the checker harness).            *)
(***************************************************************************)
\* The checker calls made so far, as <<op, key>> pairs.
CheckerCalls == [i \in 1..Len(ctrace) |-> << ctrace[i].op, ctrace[i].key >>]

\* C6 as claimed: with fewer calls than the capacity, every call returns on
\* the checker what it returns on the reference set of the keys.
C6_AsClaimed ==
    (Len(ctrace) >= 1 /\ Len(ctrace) < DEBUG_MAP_HASH_SIZE) =>
        /\ target_panic = "none"
        /\ target_ret = reference_ret

\* C6, amended: for keys with pairwise different digests, every call returns
\* on the checker what it returns on the reference set (insert: the key was
\* absent; remove: the key was present), provided the number of calls stays
\* under the capacity; more calls than that agree as well, up to a call that
\* fails the capacity assertion.
C6_CheckerMatchesReference ==
    (Len(ctrace) >= 1 /\ CollisionFree(KeysOf(CheckerCalls))) =>
        /\ Len(ctrace) < DEBUG_MAP_HASH_SIZE => target_panic = "none"
        /\ target_panic # "assert_eq"
        /\ target_panic = "none" =>
              /\ target_ret = reference_ret
              /\ target_ret =
                    Some(IF ctrace[Len(ctrace)].op = "insert"
                         THEN ctrace[Len(ctrace)].key
                                \notin ctrace[Len(ctrace)].pre.reference
                         ELSE ctrace[Len(ctrace)].key
                                \in ctrace[Len(ctrace)].pre.reference)

\* Under the capacity: insert(k) then remove(k), both true on both sides,
\* leaving the checker and the reference empty.
C6_Witness ==
    /\ Len(ctrace) = 2
    /\ Len(ctrace) < DEBUG_MAP_HASH_SIZE
    /\ ctrace[1].op = "insert" /\ ctrace[1].key = Key1_42
    /\ ctrace[2].op = "remove" /\ ctrace[2].key = Key1_42
    /\ target_ret = Some(TRUE) /\ reference_ret = Some(TRUE)
    /\ target.len = 0 /\ reference = {}

\* Every call so far was an insert, each with another key.
OnlyInsertsOfDistinctKeys ==
    /\ \A i \in 1..Len(ctrace) : ctrace[i].op = "insert"
    /\ \A i \in 1..Len(ctrace) : \A j \in 1..Len(ctrace) :
          i # j => ctrace[i].key # ctrace[j].key

\* Up to the capacity every insert returned true; the insert after that
\* failed the capacity assertion.
CapacityBoundary ==
    /\ (1 <= Len(ctrace) /\ Len(ctrace) <= DEBUG_MAP_HASH_SIZE) =>
          /\ target_panic = "none"
          /\ target_ret = Some(TRUE)
          /\ target.len = Len(ctrace)
    /\ Len(ctrace) = DEBUG_MAP_HASH_SIZE + 1 =>
          /\ target_panic = "capacity"
          /\ target_ret = None
          /\ target = ctrace[Len(ctrace)].pre.target

\* C7 as claimed: inserting C pairwise distinct keys into an empty checker
\* succeeds every time, and inserting one more distinct key aborts.
C7_AsClaimed == OnlyInsertsOfDistinctKeys => CapacityBoundary

\* C7, amended: the same for keys with pairwise different digests.
C7_CapacityBoundary ==
    (OnlyInsertsOfDistinctKeys /\ CollisionFree(KeysOf(CheckerCalls)))
        => CapacityBoundary

\* C + 1 inserts of keys with different digests: the last one failed the
\* capacity assertion with the checker full.
C7_Witness ==
    /\ Len(ctrace) = DEBUG_MAP_HASH_SIZE + 1
    /\ OnlyInsertsOfDistinctKeys
    /\ CollisionFree(KeysOf(CheckerCalls))
    /\ target_panic = "capacity"
    /\ target.len = DEBUG_MAP_HASH_SIZE
    /\ ctrace[DEBUG_MAP_HASH_SIZE].pre.target.len = DEBUG_MAP_HASH_SIZE - 1

(***************************************************************************)
(* The checker's own state.                                                *)
(***************************************************************************)
\* The digests in the occupied prefix data[0..len] of checker c.
Prefix(c) == { c.data[i] : i \in 1..c.len }

\* 0 <= len <= C, every slot of the occupied prefix holds a digest, and no
\* digest is there twice.
CheckerInvariant(c) ==
    /\ 0 <= c.len /\ c.len <= DEBUG_MAP_HASH_SIZE
    /\ \A i \in 1..c.len : IsSome(c.data[i])
    /\ \A i \in 1..c.len : \A j \in 1..c.len : i # j => c.data[i] # c.data[j]

\* C12: after any sequence of insert/remove calls on a checker made by
\* empty(), 0 <= count <= C, every slot of the occupied prefix holds a probe
\* key, and no probe key occurs twice in the prefix.
C12_CheckerInvariant == CheckerInvariant(target)

\* Three inserts and a remove of the first: two digests in the prefix, in
\* swapped order, and the removed digest left behind the prefix.
C12_Witness ==
    /\ Len(ctrace) = 4
    /\ ctrace[4].op = "remove"
    /\ ctrace[4].pre.target.len = DEBUG_MAP_HASH_SIZE
    /\ target.len = DEBUG_MAP_HASH_SIZE - 1
    /\ IsSome(target.data[DEBUG_MAP_HASH_SIZE])
    /\ target.data[DEBUG_MAP_HASH_SIZE] \notin Prefix(target)
    /\ target.data[1] = ctrace[4].pre.target.data[DEBUG_MAP_HASH_SIZE]

\* C14: an insert that returns false and a remove that returns false leave
\* count and every slot as they were.
C14_RejectedCallsDoNotMutate ==
    target_ret = Some(FALSE) => target = ctrace[Len(ctrace)].pre.target

\* insert(k), remove(j) refused, insert(k) refused: the checker is as the
\* first insert left it.
C14_Witness ==
    /\ Len(ctrace) = 3
    /\ ctrace[1].op = "insert" /\ ctrace[1].key = Key1_42
    /\ ctrace[2].op = "remove" /\ ctrace[2].key = Key2_42
    /\ ctrace[3].op = "insert" /\ ctrace[3].key = Key1_42
    /\ target_ret = Some(FALSE)
    /\ ctrace[3].pre.target = ctrace[2].pre.target
    /\ target = ctrace[2].pre.target
    /\ target.len = 1

\* The last call was a remove that returned true.
LastRemoveSucceeded ==
    /\ Len(ctrace) >= 1
    /\ ctrace[Len(ctrace)].op = "remove"
    /\ target_ret = Some(TRUE)

\* Where the digest of the last call's key was in the prefix before the call.
FoundAt ==
    CHOOSE i \in 1..ctrace[Len(ctrace)].pre.target.len :
        ctrace[Len(ctrace)].pre.target.data[i]
            = Some(FxHash(ctrace[Len(ctrace)].key))

\* C15: a successful remove of probe key p found at index i moves the key
\* that was at index count - 1 into index i, decrements count, and leaves
\* every other prefix slot in place; the probe keys of the new prefix are
\* the old ones without p.
C15_SwapRemove ==
    LastRemoveSucceeded =>
        LET before == ctrace[Len(ctrace)].pre.target
            p == Some(FxHash(ctrace[Len(ctrace)].key))
        IN  /\ p \in Prefix(before)
            /\ target.len = before.len - 1
            /\ target.data[FoundAt] = before.data[before.len]
            /\ \A j \in 1..target.len : j # FoundAt => target.data[j] = before.data[j]
            /\ Prefix(target) = Prefix(before) \ {p}

\* A remove of the first of three digests: the third takes its place.
C15_Witness ==
    /\ LastRemoveSucceeded
    /\ ctrace[Len(ctrace)].pre.target.len = 3
    /\ FoundAt = 1
    /\ target.len = 2
    /\ target.data[1] = ctrace[Len(ctrace)].pre.target.data[3]
    /\ target.data[2] = ctrace[Len(ctrace)].pre.target.data[2]

\* The digest of key k is in the occupied prefix of checker c.
Present(c, k) == Some(FxHash(k)) \in Prefix(c)

\* A checked accumulator that owns checker c.
Owning(c) == [hash |-> Zero, checker |-> Some(c)]

\* How many of the calls made were inserts.
InsertCalls == Cardinality({ i \in 1..Len(ctrace) : ctrace[i].op = "insert" })

\* C13: capacity bounds the keys present at once, not the inserts made.  In
\* every state reached, and for every key, an insert, and an add on a
\* checked accumulator owning the checker, aborts for capacity exactly when
\* the key's digest is not in the occupied prefix and count = C; an insert
\* of a key already there while count = C returns false without aborting.
\* The abort that happened was such a call, and with it more than C keys
\* were in the caller's set at once.
C13_CapacityIsSimultaneous ==
    /\ \A k \in Keys :
          LET exhausted == ~Present(target, k) /\ target.len = DEBUG_MAP_HASH_SIZE
          IN  /\ (insert(target, k).panic = "capacity") <=> exhausted
              /\ (ZobristHashSet_add_checked(Owning(target), k).panic = "capacity")
                    <=> exhausted
              /\ (Present(target, k) /\ target.len = DEBUG_MAP_HASH_SIZE)
                    => insert(target, k) = [self |-> target, ret |-> FALSE,
                                            panic |-> "none"]
    /\ (target_panic = "capacity") <=>
          /\ Len(ctrace) >= 1
          /\ ctrace[Len(ctrace)].op = "insert"
          /\ ~Present(ctrace[Len(ctrace)].pre.target, ctrace[Len(ctrace)].key)
          /\ ctrace[Len(ctrace)].pre.target.len = DEBUG_MAP_HASH_SIZE
    /\ target_panic = "capacity" => Cardinality(reference) > DEBUG_MAP_HASH_SIZE
    /\ (\A i \in 1..Len(ctrace) :
            Cardinality(ctrace[i].pre.reference) <= DEBUG_MAP_HASH_SIZE
         /\ Cardinality(reference) <= DEBUG_MAP_HASH_SIZE)
          => target_panic # "capacity"

\* More successful inserts than the capacity, never more than C keys at a
\* time: no abort, and the checker is full.
C13_Witness ==
    /\ InsertCalls > DEBUG_MAP_HASH_SIZE
    /\ \A i \in 1..Len(ctrace) :
          ctrace[i].op = "insert" => ~Present(ctrace[i].pre.target, ctrace[i].key)
    /\ target_panic = "none"
    /\ target.len = DEBUG_MAP_HASH_SIZE
    /\ Cardinality(reference) = DEBUG_MAP_HASH_SIZE

(***************************************************************************)
(* The checked accumulator and its checker.                                *)
(***************************************************************************)
\* The call on which the checked accumulator aborted.
AbortedCall ==
    CHOOSE i \in 1..Len(trace) :
        /\ trace[i].pre.ver_panic = "none"
        /\ i < Len(trace) => trace[i + 1].pre.ver_panic # "none"

\* C16: validation precedes the fold.  When an add or remove of the checked
\* build aborts, on misuse or on capacity, the accumulator's value is the
\* value from before that call and the checker's count and slots are as
\* before it; a call that does not abort both updates the checker and folds
\* the digest in.
C16_ValidationPrecedesFold ==
    /\ ver_panic # "none" =>
          /\ Len(trace) >= 1
          /\ ver.hash = trace[AbortedCall].pre.ver.hash
          /\ ver.checker = trace[AbortedCall].pre.ver.checker
    /\ (ver_panic = "none" /\ Len(trace) >= 1) =>
          LET last == trace[Len(trace)] IN
          /\ ver.hash = Xor(last.pre.ver.hash, FxHash(last.key))
          /\ IsSome(ver.checker)
          /\ Present(Unwrap(ver.checker), last.key) <=> (last.op = "add")

\* add(k); add(k) with a key of nonzero digest: the second call aborted, the
\* checked accumulator still holds the digest of k and its checker holds k,
\* while the production build folded the digest in a second time.
C16_Witness ==
    /\ Len(trace) = 2
    /\ trace[1].op = "add" /\ trace[1].key = Key1_42
    /\ trace[2].op = "add" /\ trace[2].key = Key1_42
    /\ ver_panic = "assert"
    /\ ver.hash = FxHash(Key1_42)
    /\ ver.hash # Zero
    /\ prod.hash = Zero
    /\ Unwrap(ver.checker).len = 1
    /\ ver = trace[2].pre.ver

\* The last two calls were add(a) and then a call with another key b of the
\* same digest.
LastTwoCollide ==
    /\ Len(trace) >= 2
    /\ trace[Len(trace) - 1].op = "add"
    /\ trace[Len(trace) - 1].key # trace[Len(trace)].key
    /\ FxHash(trace[Len(trace) - 1].key) = FxHash(trace[Len(trace)].key)

\* C17: hash collisions.  For distinct a and b of one digest: the checker
\* that accepted a returns false for insert(b) and true for remove(b), which
\* takes a's entry out; in the checked build add(a); add(b) fails the
\* assertion and add(a); remove(b) is accepted; in both builds add(a);
\* remove(b) leaves the value what it was.
C17_CollisionHandling ==
    LastTwoCollide =>
        LET a == trace[Len(trace) - 1].key
            b == trace[Len(trace)].key
            last == trace[Len(trace)]
        IN  /\ last.op = "remove" => prod.hash = BeforeLastTwo.prod.hash
            /\ (BeforeLastTwo.ver_panic = "none" /\ last.pre.ver_panic = "none") =>
                  LET c == Unwrap(last.pre.ver.checker) IN
                  /\ Present(c, a)
                  /\ insert(c, b).ret = FALSE
                  /\ insert(c, b).panic = "none"
                  /\ remove(c, b).ret = TRUE
                  /\ ~Present(remove(c, b).self, a)
                  /\ remove(c, b).self.len = c.len - 1
                  /\ last.op = "add" => ver_panic = "assert"
                  /\ last.op = "remove" =>
                        /\ ver_panic = "none"
                        /\ ver.hash = BeforeLastTwo.ver.hash
                        /\ ~Present(Unwrap(ver.checker), a)

\* add(a); remove(b) with a = (1, 42) and b of the same, nonzero digest:
\* accepted, the value is back at zero and the checker is empty.
C17_Witness ==
    /\ Len(trace) = 2
    /\ LastTwoCollide
    /\ trace[2].op = "remove"
    /\ trace[2].pre.prod.hash = FxHash(Key1_42)
    /\ trace[2].pre.prod.hash # Zero
    /\ prod.hash = Zero
    /\ ver_panic = "none"
    /\ ver.hash = Zero
    /\ Unwrap(trace[2].pre.ver.checker).len = 1
    /\ Unwrap(ver.checker).len = 0

(***************************************************************************)
(* What one add does to the value.                                         *)
(***************************************************************************)
\* The integer key of tests::test_zobrist_hash, and the integer key 0.
Key_42 == << U64(42) >>

Key_0 == << U64(0) >>

\* The digests of the integer keys, computed once.
IntegerHashTable == [k \in { Key_42, Key_0 } |-> Finish(HashWords(Zero, k))]

\* rotl((0 + 42) * K mod 2^64, 26)
OneWordDigest42 == RotateLeft26(WrappingMul(WrappingAdd(Zero, U64(42)), K))

\* The last call was an add.
LastCallAdd == Len(trace) >= 1 /\ trace[Len(trace)].op = "add"

\* The value of every accumulator the last call completed on differs from
\* its value before the call.
LastCallChangedValue ==
    LET before == trace[Len(trace)].pre IN
    /\ prod.hash # before.prod.hash
    /\ ver_panic = "none" => ver.hash # before.ver.hash
    /\ IsSome(before.prodB) => Unwrap(prodB).hash # Unwrap(before.prodB).hash
    /\ (IsSome(before.verB) /\ verB_panic = "none") =>
            Unwrap(verB).hash # Unwrap(before.verB).hash

\* C18 as claimed: for every key k, add(k) changes the accumulator's value.
C18_AsClaimed == LastCallAdd => LastCallChangedValue

\* C18, amended: add(k) changes the value exactly when the digest of k is
\* not zero; after a single add(k) on empty() the value is the FxHasher
\* digest of k.  For the integer key 42 that is rotl((0 + 42) * K, 26)
\* = 0xae70bf694a4b18a9; for the integer key 0, as for (0, 0), it is 0.
C18_AddIsObservable ==
    /\ LastCallAdd =>
          LET k == trace[Len(trace)].key IN
          /\ FxHash(k) # Zero => LastCallChangedValue
          /\ FxHash(k) = Zero => prod.hash = trace[Len(trace)].pre.prod.hash
          /\ Len(trace) = 1 =>
                /\ prod.hash = FxHash(k)
                /\ ver.hash = FxHash(k)
                /\ ver_panic = "none"
    /\ IntegerHashTable[Key_42] = OneWordDigest42
    /\ IntegerHashTable[Key_42] = << 169, 24, 75, 74, 105, 191, 112, 174 >>
    /\ IntegerHashTable[Key_0] = Zero
    /\ FxHash(KeyZero) = Zero

\* A single add(&(1, 42)) on empty(): the value is 0x634e662fae9bb796 in
\* both builds.
C18_Witness ==
    /\ Len(trace) = 1
    /\ LastCallAdd
    /\ trace[1].key = Key1_42
    /\ trace[1].pre.prod.hash = Zero
    /\ prod.hash = << 150, 183, 155, 174, 47, 102, 78, 99 >>
    /\ ver.hash = prod.hash
    /\ ver_panic = "none"

(***************************************************************************)
(* The value and the checker of one checked accumulator.                   *)
(***************************************************************************)
\* The XOR of the digests in data[0..n] of checker c.
RECURSIVE XorOfSlots(_, _)
XorOfSlots(c, n) ==
    IF n = 0 THEN Zero ELSE Xor(Unwrap(c.data[n]), XorOfSlots(c, n - 1))

\* The digests present after the calls made: those an odd number of the
\* calls were made with.
PresentDigests == { FxHash(k) : k \in { j \in Keys : HashPresent(CallsFrom(1), FxHash(j)) } }

\* C19 as claimed: while no call has aborted, the value is the XOR of the
\* probe keys in the occupied prefix and count is the number of keys
\* present in the caller's set.
C19_AsClaimed ==
    ver_panic = "none" =>
        /\ ver.hash = XorOfSlots(Unwrap(ver.checker), Unwrap(ver.checker).len)
        /\ Unwrap(ver.checker).len = Cardinality(PresentKeys(CallsFrom(1)))

\* C19, amended: while no call has aborted, the value is the XOR of the
\* probe keys in the occupied prefix, the prefix holds exactly the digests
\* present, and count is their number; it is the number of present keys
\* when the keys used have pairwise different digests.
C19_ValueLinksToChecker ==
    ver_panic = "none" =>
        LET c == Unwrap(ver.checker) IN
        /\ ver.hash = XorOfSlots(c, c.len)
        /\ Prefix(c) = { Some(h) : h \in PresentDigests }
        /\ c.len = Cardinality(PresentDigests)
        /\ CollisionFree(KeysOf(CallsFrom(1)))
              => c.len = Cardinality(PresentKeys(CallsFrom(1)))

\* Three adds and a remove, all accepted: two digests in the prefix, the
\* value their XOR, and the removed digest left behind the prefix.
C19_Witness ==
    /\ Len(trace) = 4
    /\ trace[4].op = "remove"
    /\ ver_panic = "none"
    /\ Unwrap(ver.checker).len = 2
    /\ Cardinality(PresentKeys(CallsFrom(1))) = 2
    /\ ver.hash = Xor(Unwrap(Unwrap(ver.checker).data[1]),
                      Unwrap(Unwrap(ver.checker).data[2]))
    /\ ver.hash # Zero
    /\ IsSome(Unwrap(ver.checker).data[3])

(***************************************************************************)
(* The derived Default.                                                    *)
(***************************************************************************)
\* C20: an accumulator from the derived Default has value 0 and, in the
\* checked build, no checker (empty() installs an empty one), so no
\* sequence of add/remove calls on it aborts, adding a key twice and
\* removing a key never added included; each call XORs the digest in.
C20_DefaultIsUnchecked ==
    /\ from_info.origin = "default" =>
          /\ Unwrap(verB).checker = None
          /\ verB_panic = "none"
          /\ Len(trace) = from_info.at =>
                Unwrap(verB).hash = Zero /\ Unwrap(prodB).hash = Zero
          /\ Unwrap(verB).hash = FoldDigests(Zero, CallsFrom(from_info.at + 1))
          /\ Unwrap(prodB).hash = Unwrap(verB).hash
    /\ IsSome(ZobristHashSet_empty_checked.checker)

\* default() and then add(k); add(k); remove(j): the accumulator from
\* empty() aborted on the second call, the one from default() took all
\* three.
C20_Witness ==
    /\ from_info.origin = "default" /\ from_info.at = 0
    /\ Len(trace) = 3
    /\ trace[1].op = "add" /\ trace[1].key = Key1_42
    /\ trace[2].op = "add" /\ trace[2].key = Key1_42
    /\ trace[3].op = "remove" /\ trace[3].key = Key2_42
    /\ ver_panic = "assert"
    /\ verB_panic = "none"
    /\ Unwrap(verB).checker = None
    /\ Unwrap(verB).hash = FxHash(Key2_42)

(***************************************************************************)
(* Copies.                                                                 *)
(***************************************************************************)
\* The calls made on the instance side after the copy, from the i-th call
\* of the copy harness on, as <<op, key>> pairs.
RECURSIVE CallsOn(_, _)
CallsOn(side, i) ==
    IF i > Len(itrace) THEN << >>
    ELSE (IF itrace[i].side = side
          THEN << << itrace[i].op, itrace[i].key >> >> ELSE << >>)
         \o CallsOn(side, i + 1)

\* The calls cs, applied in order to the three objects x.
RECURSIVE ReplayAll(_, _)
ReplayAll(x, cs) ==
    IF cs = << >> THEN x
    ELSE ReplayAll(CallAll(x, Head(cs)[1], Head(cs)[2]), Tail(cs))

\* C11: copy independence.  Once an accumulator (of either build, with its
\* checker) and a checker have been copied, a call on the copy leaves the
\* original's value, slots and count as they were, and a call on the
\* original leaves the copy's; the copy starts equal to the original, and
\* each of the two is what the state at the copy becomes under the calls
\* made on it alone.
C11_CopyIndependence ==
    IsSome(copy_info) =>
        LET made == Unwrap(copy_info) IN
        /\ Len(itrace) = made.at =>
              instances["copy"] = instances["original"]
        /\ instances["original"] = ReplayAll(made.of, CallsOn("original", made.at + 1))
        /\ instances["copy"] = ReplayAll(made.of, CallsOn("copy", made.at + 1))
        /\ Len(itrace) > made.at =>
              LET last == itrace[Len(itrace)]
                  other == IF last.side = "copy" THEN "original" ELSE "copy"
              IN  instances[other] = last.pre[other]

\* add(a) on the original, the copy, then add(b) on the copy and remove(a)
\* on the original: the copy holds a and b, the original is empty again.
C11_Witness ==
    /\ IsSome(copy_info)
    /\ Unwrap(copy_info).at = 1
    /\ Len(itrace) = 3
    /\ itrace[1].op = "add" /\ itrace[1].key = Key1_42
    /\ itrace[2].side = "copy" /\ itrace[2].op = "add" /\ itrace[2].key = Key2_42
    /\ itrace[3].side = "original" /\ itrace[3].op = "remove"
    /\ itrace[3].key = Key1_42
    /\ instances["original"].prod.hash = Zero
    /\ instances["original"].ver.hash = Zero
    /\ Unwrap(instances["original"].ver.checker).len = 0
    /\ instances["original"].chk.len = 0
    /\ instances["copy"].prod.hash = Xor(FxHash(Key1_42), FxHash(Key2_42))
    /\ instances["copy"].ver.hash = instances["copy"].prod.hash
    /\ Unwrap(instances["copy"].ver.checker).len = 2
    /\ instances["copy"].chk.len = 2
    /\ instances["copy"].ver_panic = "none"
    /\ instances["original"].ver_panic = "none"

=============================================================================
